---- MODULE Spec2Model ----
(***************************************************************************)
(* Workflow Dispatch Action, src/src/main.ts: the async function run().   *)
(*                                                                         *)
(* run() is one sequential routine.  It is suspended only at its awaits   *)
(* (four kinds of API call and two kinds of sleep), so the model has one  *)
(* action per resumption: each action is the code that runs from one      *)
(* await to the next, the catch block included.                           *)
(*                                                                         *)
(* Strings are TLA+ strings and the string functions of the code          *)
(* (endsWith, split, replace, toString, JSON.parse, template literals)    *)
(* are computed character by character.  Everything run() does to the     *)
(* outside (API requests, sleeps, setOutput, warning, setFailed) is       *)
(* appended to log in the order the code does it.  The informational log  *)
(* lines (core.info, core.debug, console.log) are not recorded.           *)
(***************************************************************************)
EXTENDS Integers, Sequences, FiniteSets, TLC

VARIABLES
    pc,             \* where run() is suspended
    now,            \* the wall clock, Date.now(), in milliseconds
    latency,        \* how long an API call takes in this execution (ms)
    getInput,       \* core.getInput: input name -> string
    workflowRef,    \* line 25
    ref,            \* line 29
    owner,          \* line 30
    repo,           \* line 30
    inputs,         \* line 35
    workflows,      \* line 45
    foundWorkflow,  \* line 58
    workflowRun,    \* line 86
    attempts,       \* line 87
    error,          \* line 134: the error the catch block caught, and where
    log,            \* the effects of run(), in order
    dispatchedAt,   \* history: the clock when the dispatch request was issued
    acceptedRun,    \* history: the latestRun the correlation loop accepted
    acceptedAt      \* history: Date.now() of the check that accepted it

vars == <<pc, now, latency, getInput, workflowRef, ref, owner, repo, inputs,
          workflows, foundWorkflow, workflowRun, attempts, error, log,
          dispatchedAt, acceptedRun, acceptedAt>>

-----------------------------------------------------------------------------
(* Bounds of the model *)

\* the Poller issues at most MaxPolls getRun requests
MaxPolls == 2
\* the listings of the Locator specification have at most MaxWorkflows entries
MaxWorkflows == 2
\* the clock at the start of run(), in ms
StartTime == 100000
\* the duration of an API call in the executions where calls take time, in ms
ApiLatency == 1000

-----------------------------------------------------------------------------
(* Program constants *)

maxAttempts == 30
RecencyWindowMs == 60000
PollerSleepMs == 5000
\* the sleep of line 104 with the duration of line 124
CorrelatorSleepAsPoller == PollerSleepMs
CorrelatorSleepMs == 2000
PerPage == 1

\* the value null / undefined of a variable that otherwise holds an object
Null == [null |-> TRUE]
\* the object {}
EmptyObject == [k \in {} |-> k]
\* a run's conclusion while it has none
NullConclusion == "null"
\* what a template literal prints for undefined
Undefined == "undefined"

\* github.context
ContextRef == "refs/heads/main"
ContextOwner == "octo"
ContextRepo == "demo"

DisabledSuffix == "a disabled workflow"
TimeoutMessage == "Timed out waiting for workflow run to start"

-----------------------------------------------------------------------------
(* String functions *)

CharAt(s, i) == SubSeq(s, i, i)

\* String.prototype.endsWith
EndsWith(s, suffix) ==
    /\ Len(s) >= Len(suffix)
    /\ SubSeq(s, Len(s) - Len(suffix) + 1, Len(s)) = suffix

\* String.prototype.indexOf, 1-based; 0 when pat does not occur in s
IndexOf(s, pat) ==
    LET hits == {i \in 1..(Len(s) - Len(pat) + 1) : SubSeq(s, i, i + Len(pat) - 1) = pat}
    IN  IF hits = {} THEN 0 ELSE CHOOSE i \in hits : \A j \in hits : i <= j

\* String.prototype.replace with a string pattern: the first occurrence only
Replace(s, pat, rep) ==
    LET i == IndexOf(s, pat)
    IN  IF Len(pat) = 0 THEN rep \o s
        ELSE IF i = 0 THEN s
        ELSE SubSeq(s, 1, i - 1) \o rep \o SubSeq(s, i + Len(pat), Len(s))

\* String.prototype.split with a one-character separator
RECURSIVE Split(_, _)
Split(s, sep) ==
    LET i == IndexOf(s, sep)
    IN  IF i = 0 THEN <<s>>
        ELSE <<SubSeq(s, 1, i - 1)>> \o Split(SubSeq(s, i + 1, Len(s)), sep)

Digit(d) ==
    CASE d = 0 -> "0" [] d = 1 -> "1" [] d = 2 -> "2" [] d = 3 -> "3" [] d = 4 -> "4"
      [] d = 5 -> "5" [] d = 6 -> "6" [] d = 7 -> "7" [] d = 8 -> "8" [] d = 9 -> "9"

\* Number.prototype.toString of a non-negative integer
RECURSIVE NumberToString(_)
NumberToString(n) ==
    IF n < 10 THEN Digit(n) ELSE NumberToString(n \div 10) \o Digit(n % 10)


-----------------------------------------------------------------------------
(* JSON.parse (line 38): objects, arrays, strings without escapes,          *)
(* non-negative integers, true, false, null; blanks between tokens.         *)
(* A result is [ok |-> TRUE, val, next] or [ok |-> FALSE, msg], where msg   *)
(* is the message of the SyntaxError that JSON.parse throws.                *)

IsDigit(c) == \E d \in 0..9 : Digit(d) = c
DigitVal(c) == CHOOSE d \in 0..9 : Digit(d) = c

RECURSIVE SkipWs(_, _)
SkipWs(s, i) ==
    IF i <= Len(s) /\ CharAt(s, i) = " " THEN SkipWs(s, i + 1) ELSE i

SyntaxError(s, i) ==
    [ok  |-> FALSE,
     msg |-> IF i > Len(s) THEN "Unexpected end of JSON input"
             ELSE "Unexpected token " \o CharAt(s, i) \o " in JSON at position "
                      \o NumberToString(i - 1)]

Parsed(v, i) == [ok |-> TRUE, val |-> v, next |-> i]

\* the digits from position i on: [val, next]
RECURSIVE ParseDigits(_, _, _)
ParseDigits(s, i, acc) ==
    IF i <= Len(s) /\ IsDigit(CharAt(s, i))
    THEN ParseDigits(s, i + 1, acc * 10 + DigitVal(CharAt(s, i)))
    ELSE Parsed(acc, i)

\* a string literal whose opening quote is at position i
ParseString(s, i) ==
    LET rest == SubSeq(s, i + 1, Len(s))
        q    == IndexOf(rest, "\"")
        b    == IndexOf(rest, "\\")
    IN  IF q = 0 THEN SyntaxError(s, Len(s) + 1)
        ELSE IF b > 0 /\ b < q THEN SyntaxError(s, i + b)
        ELSE Parsed(SubSeq(rest, 1, q - 1), i + q + 1)

ParseLiteral(s, i, word, v) ==
    IF i + Len(word) - 1 <= Len(s) /\ SubSeq(s, i, i + Len(word) - 1) = word
    THEN Parsed(v, i + Len(word))
    ELSE LET bad == CHOOSE k \in 1..Len(word) :
                        /\ (i + k - 1 > Len(s) \/ CharAt(s, i + k - 1) # CharAt(word, k))
                        /\ \A j \in 1..(k - 1) : CharAt(s, i + j - 1) = CharAt(word, j)
         IN  SyntaxError(s, i + bad - 1)

RECURSIVE ParseValue(_, _), ParseMembers(_, _, _), ParseElements(_, _, _)

\* a value that starts at position i (no blank at i)
ParseValue(s, i) ==
    IF i > Len(s) THEN SyntaxError(s, i)
    ELSE LET c == CharAt(s, i)
         IN  CASE c = "{" ->
                    LET j == SkipWs(s, i + 1)
                    IN  IF j <= Len(s) /\ CharAt(s, j) = "}" THEN Parsed(EmptyObject, j + 1)
                        ELSE ParseMembers(s, j, EmptyObject)
               [] c = "[" ->
                    LET j == SkipWs(s, i + 1)
                    IN  IF j <= Len(s) /\ CharAt(s, j) = "]" THEN Parsed(<< >>, j + 1)
                        ELSE ParseElements(s, j, << >>)
               [] c = "\"" -> ParseString(s, i)
               [] c = "t" -> ParseLiteral(s, i, "true", TRUE)
               [] c = "f" -> ParseLiteral(s, i, "false", FALSE)
               [] c = "n" -> ParseLiteral(s, i, "null", Null)
               [] c = "0" -> Parsed(0, i + 1)
               [] IsDigit(c) /\ c # "0" -> ParseDigits(s, i, 0)
               [] OTHER -> SyntaxError(s, i)

\* the members of an object from the key at position i on; acc holds the
\* members read so far (a repeated key keeps its last value)
ParseMembers(s, i, acc) ==
    IF i > Len(s) \/ CharAt(s, i) # "\"" THEN SyntaxError(s, i)
    ELSE LET k == ParseString(s, i)
         IN  IF ~k.ok THEN k
             ELSE LET c == SkipWs(s, k.next)
                  IN  IF c > Len(s) \/ CharAt(s, c) # ":" THEN SyntaxError(s, c)
                      ELSE LET v == ParseValue(s, SkipWs(s, c + 1))
                           IN  IF ~v.ok THEN v
                               ELSE LET obj == [n \in DOMAIN acc \cup {k.val} |->
                                                   IF n = k.val THEN v.val ELSE acc[n]]
                                        e   == SkipWs(s, v.next)
                                    IN  IF e > Len(s) THEN SyntaxError(s, e)
                                        ELSE IF CharAt(s, e) = "}" THEN Parsed(obj, e + 1)
                                        ELSE IF CharAt(s, e) = ","
                                             THEN ParseMembers(s, SkipWs(s, e + 1), obj)
                                        ELSE SyntaxError(s, e)

\* the elements of an array from the value at position i on
ParseElements(s, i, acc) ==
    LET v == ParseValue(s, i)
    IN  IF ~v.ok THEN v
        ELSE LET arr == Append(acc, v.val)
                 e   == SkipWs(s, v.next)
             IN  IF e > Len(s) THEN SyntaxError(s, e)
                 ELSE IF CharAt(s, e) = "]" THEN Parsed(arr, e + 1)
                 ELSE IF CharAt(s, e) = ","
                      THEN ParseElements(s, SkipWs(s, e + 1), arr)
                 ELSE SyntaxError(s, e)

JSONParse(s) ==
    LET r == ParseValue(s, SkipWs(s, 1))
    IN  IF ~r.ok THEN r
        ELSE LET j == SkipWs(s, r.next)
             IN  IF j <= Len(s) THEN SyntaxError(s, j) ELSE r

-----------------------------------------------------------------------------
(* The effects of run(), as entries of log *)

ListWorkflowsCall(o, r) == [op |-> "listWorkflows", owner |-> o, repo |-> r]

\* a dispatch request for the ambient ref in place of the resolved ref
DispatchCallContextRef(o, r, id, rf, inp) ==
    [op |-> "dispatch", owner |-> o, repo |-> r, workflow_id |-> id,
     ref |-> ContextRef, inputs |-> inp]

\* a dispatch request that leaves the inputs out
DispatchCallNoInputs(o, r, id, rf, inp) ==
    [op |-> "dispatch", owner |-> o, repo |-> r, workflow_id |-> id, ref |-> rf,
     inputs |-> EmptyObject]

DispatchCall(o, r, id, rf, inp) ==
    [op |-> "dispatch", owner |-> o, repo |-> r, workflow_id |-> id, ref |-> rf, inputs |-> inp]

\* line 95
Branch(rf) == Replace(rf, "refs/heads/", "")

ListRunsCall(o, r, id, rf) ==
    [op |-> "listRuns", owner |-> o, repo |-> r, workflow_id |-> id,
     branch |-> Branch(rf), per_page |-> PerPage]

\* a getRun request for the id of the workflow in place of the id of the run
GetRunCallWorkflowId(o, r, id) ==
    [op |-> "getRun", owner |-> o, repo |-> r, run_id |-> foundWorkflow.id]

GetRunCall(o, r, id) == [op |-> "getRun", owner |-> o, repo |-> r, run_id |-> id]

Sleep(ms) == [op |-> "sleep", ms |-> ms]

SetOutput(name, value) == [op |-> "setOutput", name |-> name, value |-> value]

Warning(msg) == [op |-> "warning", message |-> msg]

SetFailed(msg) == [op |-> "setFailed", message |-> msg]

\* the entries of l whose op is o, in order
Select(l, o) == SelectSeq(l, LAMBDA e : e.op = o)

Count(l, o) == Len(Select(l, o))

-----------------------------------------------------------------------------
(* The catch block *)

\* the test of line 137 with === in place of endsWith
IsDisabledErrorExact(msg) == msg = DisabledSuffix

\* the test of line 137 with includes in place of endsWith
IsDisabledErrorIncludes(msg) == IndexOf(msg, DisabledSuffix) > 0

\* line 137
IsDisabledError(msg) == EndsWith(msg, DisabledSuffix)

\* a catch block that wraps the message of the error
CatchPrefixed(l, msg) ==
    IF IsDisabledError(msg)
    THEN Append(l, Warning("Workflow is disabled, no action was taken"))
    ELSE Append(l, SetFailed("Action failed: " \o msg))

\* lines 137-142: what the catch block appends to the log l for an error
\* with message msg
Catch(l, msg) ==
    IF IsDisabledError(msg)
    THEN Append(l, Warning("Workflow is disabled, no action was taken"))
    ELSE Append(l, SetFailed(msg))

\* the value of error once an error with message msg was thrown in phase ph
Thrown(msg, ph) == [message |-> msg, phase |-> ph]

-----------------------------------------------------------------------------
(* Workflow Locator *)

\* the predicate of workflows.find
Matches(workflow, wref) ==
    \/ workflow.name = wref
    \/ NumberToString(workflow.id) = wref
    \/ EndsWith(workflow.path, "/" \o wref)
    \/ workflow.path = wref

\* a search that returns the last element that matches
FindIndexLast(ws, wref) ==
    LET hits == {i \in 1..Len(ws) : Matches(ws[i], wref)}
    IN  IF hits = {} THEN 0 ELSE CHOOSE i \in hits : \A j \in hits : i >= j

\* Array.prototype.find: the index of the first element that matches, 0 if none
FindIndex(ws, wref) ==
    LET hits == {i \in 1..Len(ws) : Matches(ws[i], wref)}
    IN  IF hits = {} THEN 0 ELSE CHOOSE i \in hits : \A j \in hits : i <= j

Find(ws, wref) ==
    IF FindIndex(ws, wref) = 0 THEN Null ELSE ws[FindIndex(ws, wref)]

\* the message of line 67 without the repository
NotFoundMessageNoRepo(wref, o, r) ==
    "Unable to find workflow '" \o wref \o "' :("

\* line 67; " :(" stands for the emoji that ends the message
NotFoundMessage(wref, o, r) ==
    "Unable to find workflow '" \o wref \o "' in " \o o \o "/" \o r \o " :("

-----------------------------------------------------------------------------
(* Runs *)

\* a conversion that takes the seconds of created_at for milliseconds
DateToMsSeconds(created_at) == created_at

\* new Date(created_at).getTime(): created_at is a timestamp in whole seconds
DateToMs(created_at) == created_at * 1000

\* the test of line 100 with >= in place of >
EligibleInclusive(latestRun, t) ==
    /\ latestRun # Null
    /\ DateToMs(latestRun.created_at) >= t - RecencyWindowMs

\* the test of line 100, with t = Date.now()
Eligible(latestRun, t) ==
    /\ latestRun # Null
    /\ DateToMs(latestRun.created_at) > t - RecencyWindowMs

Run(id, status, conclusion, created_at) ==
    [id |-> id, status |-> status, conclusion |-> conclusion, created_at |-> created_at]

\* the condition of line 90 with <= in place of <
KeepCorrelatingInclusive(wr, att) == wr = Null /\ att <= maxAttempts

\* the condition of line 90
KeepCorrelating(wr, att) == wr = Null /\ att < maxAttempts

\* the condition of lines 115 and 123 with a misspelt status
NotCompletedTypo(wr) == wr.status # "complete"

\* the condition of lines 115 and 123 that waits only while the run is queued
NotCompletedQueuedOnly(wr) == wr.status = "queued"

\* the condition of lines 115 and 123
NotCompleted(wr) == wr.status # "completed"

\* lines 129-131 without line 131
RunOutputsNoConclusion(wr) ==
    <<SetOutput("workflow_run_id", wr.id),
      SetOutput("workflow_run_status", wr.status)>>

\* lines 129-131
RunOutputs(wr) ==
    <<SetOutput("workflow_run_id", wr.id),
      SetOutput("workflow_run_status", wr.status),
      SetOutput("workflow_run_conclusion", wr.conclusion)>>

\* a polling loop that gives up after its first fetch
PollerLoopCapped(wr, l) ==
    IF NotCompleted(wr) /\ Count(l, "getRun") = 0
    THEN [pc    |-> "awaitGetRun",
          log   |-> Append(l, GetRunCall(owner, repo, wr.id)),
          error |-> Null]
    ELSE IF NotCompleted(wr)
    THEN [pc    |-> "done",
          log   |-> Catch(l, "Timed out waiting for workflow run to complete"),
          error |-> Thrown("Timed out waiting for workflow run to complete", "poll")]
    ELSE [pc    |-> "done",
          log   |-> l \o RunOutputs(wr),
          error |-> Null]

\* a polling loop that lists the runs again from its second round on
PollerLoopRecorrelates(wr, l) ==
    IF NotCompleted(wr) /\ Count(l, "getRun") = 0
    THEN [pc    |-> "awaitGetRun",
          log   |-> Append(l, GetRunCall(owner, repo, wr.id)),
          error |-> Null]
    ELSE IF NotCompleted(wr)
    THEN [pc    |-> "awaitListRuns",
          log   |-> Append(l, ListRunsCall(owner, repo, foundWorkflow.id, ref)),
          error |-> Null]
    ELSE [pc    |-> "done",
          log   |-> l \o RunOutputs(wr),
          error |-> Null]

\* lines 115-132 from the condition of the polling loop on, up to the next
\* await or the end of run(); wr is workflowRun, l the log
PollerLoop(wr, l) ==
    IF NotCompleted(wr)
    THEN [pc    |-> "awaitGetRun",
          log   |-> Append(l, GetRunCall(owner, repo, wr.id)),
          error |-> Null]
    ELSE [pc    |-> "done",
          log   |-> l \o RunOutputs(wr),
          error |-> Null]

\* lines 90-111 from the condition of the correlation loop on, and what
\* follows the loop; wr and att are workflowRun and attempts, l the log
CorrelatorLoop(wr, att, l) ==
    IF KeepCorrelating(wr, att)
    THEN [pc    |-> "awaitListRuns",
          log   |-> Append(l, ListRunsCall(owner, repo, foundWorkflow.id, ref)),
          error |-> Null]
    ELSE IF wr = Null
    THEN [pc    |-> "done",
          log   |-> Catch(l, TimeoutMessage),
          error |-> Thrown(TimeoutMessage, "correlate")]
    ELSE PollerLoop(wr, l)

-----------------------------------------------------------------------------
(* What the outside can answer *)

\* messages of the errors an API call can raise
ErrorMessages ==
    {"Cannot trigger a 'workflow_dispatch' on a disabled workflow",
     "a disabled workflow",
     "a disabled workflow.",
     "Not Found"}

CI == [id |-> 101, name |-> "CI", path |-> ".github/workflows/ci.yml"]
Deploy == [id |-> 7, name |-> "Deploy", path |-> ".github/workflows/deploy.yml"]

\* the listings the repository can answer listWorkflows with
Listings == {<< >>, <<Deploy>>, <<CI, Deploy>>}

\* id, status and conclusion of the run snapshots the API can return
RunStates ==
    {<<7, "queued", NullConclusion>>,
     <<7, "completed", "success">>,
     <<8, "in_progress", NullConclusion>>,
     <<8, "completed", "failure">>}

\* created_at of the latest run a listing at time t can show: at the edge of
\* the recency window, one second inside it, at the dispatch, and just now
CreatedAts(t) ==
    {(t - RecencyWindowMs) \div 1000,
     (t - RecencyWindowMs) \div 1000 + 1,
     (dispatchedAt + 999) \div 1000,
     t \div 1000}

\* the values of data.workflow_runs a listRuns call that returns at time t can give
RunListings(t) ==
    {<< >>} \cup {<<Run(s[1], s[2], s[3], c)>> : s \in RunStates, c \in CreatedAts(t)}

-----------------------------------------------------------------------------
(* Initial states *)

InitWith(Workflow, RefIn, RepoIn, InputsIn, Latencies) ==
    /\ pc = "start"
    /\ now = StartTime
    /\ latency \in Latencies
    /\ getInput \in [workflow : Workflow, ref : RefIn, repo : RepoIn, inputs : InputsIn]
    /\ workflowRef = ""
    /\ ref = ""
    /\ owner = ""
    /\ repo = ""
    /\ inputs = EmptyObject
    /\ workflows = << >>
    /\ foundWorkflow = Null
    /\ workflowRun = Null
    /\ attempts = 0
    /\ error = Null
    /\ log = << >>
    /\ dispatchedAt = 0
    /\ acceptedRun = Null
    /\ acceptedAt = 0

Init ==
    InitWith({"ci.yml", "nope"},
             {"", "refs/heads/dev"},
             {"", "acme/tools"},
             {"", "{\"x\":1}", "{bad json"},
             {0, ApiLatency})

-----------------------------------------------------------------------------
(* Actions: run() from one await to the next *)

\* lines 22-50: read the inputs, parse the inputs JSON, request the workflows
Start ==
    /\ pc = "start"
    /\ workflowRef' = getInput.workflow
    /\ ref' = IF getInput.ref # "" THEN getInput.ref ELSE ContextRef
    /\ LET parts == Split(getInput.repo, "/")
       IN  /\ owner' = IF getInput.repo # "" THEN parts[1] ELSE ContextOwner
           /\ repo' = IF getInput.repo = "" THEN ContextRepo
                      ELSE IF Len(parts) >= 2 THEN parts[2] ELSE Undefined
    /\ LET parsed == IF getInput.inputs # "" THEN JSONParse(getInput.inputs)
                     ELSE Parsed(EmptyObject, 1)
       IN  IF parsed.ok
           THEN /\ inputs' = parsed.val
                /\ log' = Append(log, ListWorkflowsCall(owner', repo'))
                /\ pc' = "awaitListWorkflows"
                /\ error' = Null
           ELSE /\ inputs' = inputs
                /\ log' = Catch(log, parsed.msg)
                /\ pc' = "done"
                /\ error' = Thrown(parsed.msg, "parse")
    /\ UNCHANGED <<now, latency, getInput, workflows, foundWorkflow, workflowRun,
                   attempts, dispatchedAt, acceptedRun, acceptedAt>>

\* lines 45-79: the workflows arrive (or the call fails); find the workflow
\* and request its dispatch
ListWorkflowsReturn(Answers) ==
    /\ pc = "awaitListWorkflows"
    /\ now' = now + latency
    /\ \/ \E msg \in ErrorMessages :
            /\ log' = Catch(log, msg)
            /\ pc' = "done"
            /\ error' = Thrown(msg, "listWorkflows")
            /\ UNCHANGED <<workflows, foundWorkflow, dispatchedAt>>
       \/ \E ws \in Answers :
            /\ workflows' = ws
            /\ foundWorkflow' = Find(ws, workflowRef)
            /\ IF foundWorkflow' = Null
               THEN /\ log' = Catch(log, NotFoundMessage(workflowRef, owner, repo))
                    /\ pc' = "done"
                    /\ error' = Thrown(NotFoundMessage(workflowRef, owner, repo), "locate")
                    /\ UNCHANGED dispatchedAt
               ELSE /\ log' = Append(log, DispatchCall(owner, repo, foundWorkflow'.id,
                                                       ref, inputs))
                    /\ pc' = "awaitDispatch"
                    /\ error' = Null
                    /\ dispatchedAt' = now'
    /\ UNCHANGED <<latency, getInput, workflowRef, ref, owner, repo, inputs,
                   workflowRun, attempts, acceptedRun, acceptedAt>>

\* lines 73-97: the dispatch returns (or fails); set workflowId and enter the
\* correlation loop
DispatchReturn ==
    /\ pc = "awaitDispatch"
    /\ now' = now + latency
    /\ \/ \E msg \in ErrorMessages :
            /\ log' = Catch(log, msg)
            /\ pc' = "done"
            /\ error' = Thrown(msg, "dispatch")
            /\ UNCHANGED <<workflowRun, attempts>>
       \/ /\ workflowRun' = Null
          /\ attempts' = 0
          /\ LET next == CorrelatorLoop(workflowRun', attempts',
                             Append(log, SetOutput("workflowId", foundWorkflow.id)))
             IN  /\ pc' = next.pc
                 /\ log' = next.log
                 /\ error' = next.error
    /\ UNCHANGED <<latency, getInput, workflowRef, ref, owner, repo, inputs, workflows,
                   foundWorkflow, dispatchedAt, acceptedRun, acceptedAt>>

\* lines 91-132: a listing of runs arrives (or the call fails); accept the
\* latest run or start the 2 second sleep
ListRunsReturn ==
    /\ pc = "awaitListRuns"
    /\ now' = now + latency
    /\ \/ \E msg \in ErrorMessages :
            /\ log' = Catch(log, msg)
            /\ pc' = "done"
            /\ error' = Thrown(msg, "listRuns")
            /\ UNCHANGED <<workflowRun, acceptedRun, acceptedAt>>
       \/ \E workflow_runs \in RunListings(now') :
            LET latestRun == IF Len(workflow_runs) >= 1 THEN workflow_runs[1] ELSE Null
            IN  IF Eligible(latestRun, now')
                THEN /\ workflowRun' = latestRun
                     /\ acceptedRun' = latestRun
                     /\ acceptedAt' = now'
                     /\ LET next == CorrelatorLoop(workflowRun', attempts, log)
                        IN  /\ pc' = next.pc
                            /\ log' = next.log
                            /\ error' = next.error
                ELSE /\ log' = Append(log, Sleep(CorrelatorSleepMs))
                     /\ pc' = "sleep2"
                     /\ UNCHANGED <<workflowRun, error, acceptedRun, acceptedAt>>
    /\ UNCHANGED <<latency, getInput, workflowRef, ref, owner, repo, inputs, workflows,
                   foundWorkflow, attempts, dispatchedAt>>

\* lines 104-111: the 2 second sleep ends; count the attempt and go round
\* the correlation loop, or time out
CorrelatorWake ==
    /\ pc = "sleep2"
    /\ now' = now + CorrelatorSleepMs
    /\ attempts' = attempts + 1
    /\ LET next == CorrelatorLoop(workflowRun, attempts', log)
       IN  /\ pc' = next.pc
           /\ log' = next.log
           /\ error' = next.error
    /\ UNCHANGED <<latency, getInput, workflowRef, ref, owner, repo, inputs, workflows,
                   foundWorkflow, workflowRun, dispatchedAt, acceptedRun, acceptedAt>>

\* lines 116-132: a run snapshot arrives (or the call fails); replace the held
\* snapshot, then start the 5 second sleep or set the run outputs
GetRunReturn ==
    /\ pc = "awaitGetRun"
    /\ now' = now + latency
    /\ \/ \E msg \in ErrorMessages :
            /\ log' = Catch(log, msg)
            /\ pc' = "done"
            /\ error' = Thrown(msg, "getRun")
            /\ UNCHANGED workflowRun
       \/ \E s \in RunStates :
            /\ workflowRun' = Run(s[1], s[2], s[3], workflowRun.created_at)
            /\ IF NotCompleted(workflowRun')
               THEN /\ log' = Append(log, Sleep(PollerSleepMs))
                    /\ pc' = "sleep5"
                    /\ UNCHANGED error
               ELSE LET next == PollerLoop(workflowRun', log)
                    IN  /\ pc' = next.pc
                        /\ log' = next.log
                        /\ error' = next.error
    /\ UNCHANGED <<latency, getInput, workflowRef, ref, owner, repo, inputs, workflows,
                   foundWorkflow, attempts, dispatchedAt, acceptedRun, acceptedAt>>

\* lines 124-126, 115-120: the 5 second sleep ends; fetch the run again
PollerWake ==
    /\ pc = "sleep5"
    /\ Count(log, "getRun") < MaxPolls
    /\ now' = now + PollerSleepMs
    /\ LET next == PollerLoop(workflowRun, log)
       IN  /\ pc' = next.pc
           /\ log' = next.log
           /\ error' = next.error
    /\ UNCHANGED <<latency, getInput, workflowRef, ref, owner, repo, inputs, workflows,
                   foundWorkflow, workflowRun, attempts, dispatchedAt, acceptedRun,
                   acceptedAt>>

Next ==
    \/ Start
    \/ ListWorkflowsReturn(Listings)
    \/ DispatchReturn
    \/ ListRunsReturn
    \/ CorrelatorWake
    \/ GetRunReturn
    \/ PollerWake

Spec == Init /\ [][Next]_vars

-----------------------------------------------------------------------------
(* The Locator on its own: more identifiers and more listings *)

ByName == [id |-> 8, name |-> "101", path |-> "ci.yml"]
ByFile == [id |-> 9, name |-> "ci.yml", path |-> ".github/workflows/sub/ci.yml"]
NearMiss == [id |-> 10, name |-> "ci", path |-> ".github/workflows/xci.yml"]

WorkflowPool == {CI, Deploy, ByName, ByFile, NearMiss}

\* the sequences over S of length at most n
RECURSIVE SeqsUpTo(_, _)
SeqsUpTo(S, n) ==
    IF n = 0 THEN {<< >>}
    ELSE LET shorter == SeqsUpTo(S, n - 1)
         IN  shorter \cup {Append(q, x) : q \in shorter, x \in S}

LocatorListings == SeqsUpTo(WorkflowPool, MaxWorkflows)

InitLocator ==
    InitWith({"ci.yml", "101", "CI", "7", "ci", ".github/workflows/ci.yml", "yml", ""},
             {""},
             {"", "acme/tools"},
             {""},
             {0})

NextLocator ==
    \/ Start
    \/ ListWorkflowsReturn(LocatorListings)

SpecLocator == InitLocator /\ [][NextLocator]_vars

-----------------------------------------------------------------------------
(* Vocabulary of the properties *)

\* s ends with suffix: some prefix of s followed by suffix is s
HasSuffix(s, suffix) == \E i \in 0..Len(s) : SubSeq(s, 1, i) \o suffix = s

\* pat occurs in s
Contains(s, pat) == \E i \in 1..(Len(s) + 1) : \E j \in (i - 1)..Len(s) : SubSeq(s, i, j) = pat

Outputs == Select(log, "setOutput")

OutputNames == [i \in 1..Len(Outputs) |-> Outputs[i].name]

AllOutputNames ==
    <<"workflowId", "workflow_run_id", "workflow_run_status", "workflow_run_conclusion">>

RunOutputSet == \E i \in 1..Len(Outputs) : Outputs[i].name # "workflowId"

Failed == Count(log, "setFailed") > 0

Warned == Count(log, "warning") > 0

LastLog == log[Len(log)]

ApiCalls == SelectSeq(log, LAMBDA e : e.op \in {"listWorkflows", "dispatch", "listRuns", "getRun"})

\* the 2 second sleeps so far: the attempts that found no eligible run
IneligibleAttempts == Len(SelectSeq(log, LAMBDA e : e.op = "sleep" /\ e.ms = 2000))

ErrorIn(phases) == error # Null /\ error.phase \in phases

\* the dispatch call was made and has returned without an error
DispatchSucceeded ==
    /\ Count(log, "dispatch") = 1
    /\ pc # "awaitDispatch"
    /\ ~ErrorIn({"dispatch"})

\* the workflows were listed without an error
ListingAnswered ==
    /\ pc \notin {"start", "awaitListWorkflows"}
    /\ ~ErrorIn({"parse", "listWorkflows"})

\* the four forms of a match, as the specification words them
ClaimMatch(w, id) ==
    \/ w.name = id
    \/ ToString(w.id) = id
    \/ HasSuffix(w.path, "/" \o id)
    \/ w.path = id

ClaimHits == {i \in 1..Len(workflows) : ClaimMatch(workflows[i], workflowRef)}

-----------------------------------------------------------------------------
(* C1 *)

\* C1 as stated: whenever an API call (listWorkflows, dispatch, listRuns,
\* getRun) raised an error whose message ends with "a disabled workflow", the
\* invocation has ended successfully with a warning, never failed, and no
\* output at all has been set, workflowId included.
C1Original ==
    (ErrorIn({"listWorkflows", "dispatch", "listRuns", "getRun"})
        /\ HasSuffix(error.message, "a disabled workflow"))
    => /\ pc = "done"
       /\ Warned
       /\ ~Failed
       /\ Outputs = << >>

\* C1 amended: an API error whose message ends with "a disabled workflow"
\* ends the invocation successfully with one warning as the last effect and
\* no failure; no output has been set when listWorkflows or dispatch raised
\* it, and exactly workflowId has been set when listRuns or getRun raised it.
C1DisabledIsBenign ==
    (ErrorIn({"listWorkflows", "dispatch", "listRuns", "getRun"})
        /\ HasSuffix(error.message, "a disabled workflow"))
    => /\ pc = "done"
       /\ Count(log, "warning") = 1
       /\ LastLog.op = "warning"
       /\ ~Failed
       /\ OutputNames = IF error.phase \in {"listWorkflows", "dispatch"}
                        THEN << >> ELSE <<"workflowId">>

C1Witness ==
    /\ ErrorIn({"getRun"})
    /\ HasSuffix(error.message, "a disabled workflow")
    /\ error.message # "a disabled workflow"
    /\ pc = "done"

-----------------------------------------------------------------------------
(* C2 *)

\* C2: once 30 attempts of the Correlator have each found no eligible run
\* (and the 30th sleep is over), the invocation has ended in the failure
\* state with the message 'Timed out waiting for workflow run to start',
\* after exactly 30 listRuns calls, with no getRun call and no run output.
C2Timeout ==
    (IneligibleAttempts = 30 /\ pc # "sleep2")
    => /\ pc = "done"
       /\ LastLog = SetFailed("Timed out waiting for workflow run to start")
       /\ Count(log, "setFailed") = 1
       /\ Count(log, "listRuns") = 30
       /\ Count(log, "getRun") = 0
       /\ OutputNames = <<"workflowId">>

C2Witness ==
    /\ IneligibleAttempts = 30
    /\ pc = "done"
    /\ Failed

-----------------------------------------------------------------------------
(* C3 *)

\* C3: the run the Correlator accepted was, at the check that accepted it,
\* strictly newer than the check time minus 60 seconds.
C3Recency ==
    acceptedRun # Null => acceptedRun.created_at * 1000 > acceptedAt - 60000

\* a run accepted within one second of the edge of the window, after some
\* attempts had failed
C3Witness ==
    /\ acceptedRun # Null
    /\ acceptedRun.created_at * 1000 - (acceptedAt - 60000) <= 1000
    /\ attempts > 0

-----------------------------------------------------------------------------
(* C4 *)

\* C4 as stated: the run the Correlator accepted was not created before the
\* dispatch call was issued.
C4NeverStale ==
    acceptedRun # Null => acceptedRun.created_at * 1000 >= dispatchedAt

-----------------------------------------------------------------------------
(* C5 *)

\* C5: a run output is set only when the held snapshot has status
\* "completed"; then the outputs are workflowId, then the id of the held
\* snapshot, "completed" and its conclusion, and the failure state is not set.
C5OutputsOnCompletion ==
    RunOutputSet
    => /\ workflowRun # Null
       /\ workflowRun.status = "completed"
       /\ Outputs = <<SetOutput("workflowId", foundWorkflow.id),
                      SetOutput("workflow_run_id", workflowRun.id),
                      SetOutput("workflow_run_status", "completed"),
                      SetOutput("workflow_run_conclusion", workflowRun.conclusion)>>
       /\ ~Failed

\* the outputs were set from a snapshot that getRun returned in place of the
\* accepted one
C5Witness ==
    /\ RunOutputSet
    /\ Count(log, "getRun") >= 1
    /\ workflowRun.id # acceptedRun.id

-----------------------------------------------------------------------------
(* C6 *)

\* C6: the outputs set so far are, in order, none, or workflowId alone, or
\* workflowId, workflow_run_id, workflow_run_status, workflow_run_conclusion:
\* each at most once, workflowId first, the three run outputs all or none.
C6OutputOrder ==
    OutputNames \in {<< >>, <<"workflowId">>, AllOutputNames}

C6Witness ==
    /\ pc = "done"
    /\ OutputNames = AllOutputNames

-----------------------------------------------------------------------------
(* C7 *)

\* C7: when a step after a successful dispatch (listRuns, the correlation
\* timeout, getRun) fails with a message that does not end with "a disabled
\* workflow", the invocation has ended in the failure state with that message
\* and exactly one output, workflowId, the id of the found workflow; and
\* workflowId is set only after the dispatch call returned successfully.
C7OnlyWorkflowId ==
    /\ (ErrorIn({"listRuns", "correlate", "getRun"})
            /\ ~HasSuffix(error.message, "a disabled workflow"))
       => /\ pc = "done"
          /\ LastLog = SetFailed(error.message)
          /\ Count(log, "setFailed") = 1
          /\ Outputs = <<SetOutput("workflowId", foundWorkflow.id)>>
    /\ Outputs # << >> => DispatchSucceeded

C7Witness ==
    /\ ErrorIn({"getRun"})
    /\ ~HasSuffix(error.message, "a disabled workflow")
    /\ DispatchSucceeded
    /\ Failed

-----------------------------------------------------------------------------
(* C8 *)

\* C8: once the workflows are listed, the Locator has found the element with
\* the smallest index that matches the identifier in any of the four forms,
\* and has failed with the not-found error exactly when no element matches.
C8FirstMatch ==
    ListingAnswered
    => IF ClaimHits = {}
       THEN foundWorkflow = Null /\ ErrorIn({"locate"})
       ELSE /\ \E i \in ClaimHits :
                 /\ \A j \in ClaimHits : i <= j
                 /\ foundWorkflow = workflows[i]
            /\ ~ErrorIn({"locate"})
            /\ LastLog.op = "dispatch"
            /\ LastLog.workflow_id = foundWorkflow.id

\* two different elements match, the first of them not by its name
C8Witness ==
    /\ pc = "awaitDispatch"
    /\ \E i, j \in ClaimHits :
         /\ i < j
         /\ workflows[i] # workflows[j]
         /\ workflows[i].name # workflowRef
         /\ workflows[j].name = workflowRef
         /\ foundWorkflow = workflows[i]

-----------------------------------------------------------------------------
(* C9 *)

\* C9: when the workflows are listed and none matches the identifier, the
\* invocation has ended in the failure state with a message that contains
\* the identifier, the owner and the repo, it has made no dispatch, listRuns
\* or getRun call, and no output is set.
C9NotFound ==
    (ListingAnswered /\ ClaimHits = {})
    => /\ pc = "done"
       /\ ErrorIn({"locate"})
       /\ log = <<ListWorkflowsCall(owner, repo), SetFailed(error.message)>>
       /\ Contains(error.message, workflowRef)
       /\ Contains(error.message, owner)
       /\ Contains(error.message, repo)

\* not found in a listing that is not empty, in a repository given as input
C9Witness ==
    /\ ListingAnswered
    /\ ClaimHits = {}
    /\ workflows # << >>
    /\ getInput.repo # ""
    /\ Failed

-----------------------------------------------------------------------------
(* C10 *)

\* C10: a non-empty inputs string that is not valid JSON ends the invocation
\* in the failure state with no API call and no output; every dispatch call
\* carries the empty mapping when the inputs string is empty and the parsed
\* value of the inputs string otherwise ('{"x":1}' gives x -> 1).
C10Inputs ==
    /\ (pc # "start" /\ getInput.inputs # "" /\ ~JSONParse(getInput.inputs).ok)
       => /\ pc = "done"
          /\ Failed
          /\ ApiCalls = << >>
          /\ Outputs = << >>
    /\ ~JSONParse("{bad json").ok
    /\ \A i \in 1..Len(log) :
         log[i].op = "dispatch"
         => /\ getInput.inputs = "" => log[i].inputs = EmptyObject
            /\ getInput.inputs # "" => log[i].inputs = JSONParse(getInput.inputs).val
            /\ getInput.inputs = "{\"x\":1}" => log[i].inputs = [x |-> 1]

C10Witness ==
    /\ getInput.inputs = "{bad json"
    /\ pc = "done"
    /\ Failed
    /\ log = <<SetFailed("Unexpected token b in JSON at position 1")>>

-----------------------------------------------------------------------------
(* C11 *)

\* C11: at most one dispatch call is issued; it comes right after the
\* listWorkflows call, when a workflow has been found, and carries the id of
\* the found workflow, the resolved ref and the resolved inputs; a dispatch
\* that failed is the last API call of the invocation.
C11SingleDispatch ==
    /\ Count(log, "dispatch") <= 1
    /\ \A i \in 1..Len(log) :
         log[i].op = "dispatch"
         => /\ i = 2
            /\ log[1].op = "listWorkflows"
            /\ foundWorkflow # Null
            /\ ClaimHits # {}
            /\ log[i].workflow_id = foundWorkflow.id
            /\ log[i].ref = (IF getInput.ref # "" THEN getInput.ref ELSE "refs/heads/main")
            /\ log[i].ref = ref
            /\ log[i].inputs = inputs
    /\ ErrorIn({"dispatch"})
       => /\ pc = "done"
          /\ Len(log) = 3
          /\ Len(ApiCalls) = 2
          /\ ApiCalls[2].op = "dispatch"

\* a dispatch for a ref given as input has failed
C11Witness ==
    /\ ErrorIn({"dispatch"})
    /\ getInput.ref # ""
    /\ Count(log, "dispatch") = 1
    /\ pc = "done"

-----------------------------------------------------------------------------
(* C12 *)

\* C12: when a listRuns or a getRun call raised an error whose message does
\* not end with "a disabled workflow", the invocation has ended, the failed
\* call is the last API call and the last effect but one, and the last
\* effect is the failure state with the message of the error, verbatim.
C12NoRetry ==
    (ErrorIn({"listRuns", "getRun"}) /\ ~HasSuffix(error.message, "a disabled workflow"))
    => /\ pc = "done"
       /\ Len(log) >= 2
       /\ log[Len(log) - 1].op = error.phase
       /\ ApiCalls[Len(ApiCalls)].op = error.phase
       /\ LastLog.op = "setFailed"
       /\ LastLog.message = error.message
       /\ error.message \in ErrorMessages
       /\ Count(log, "setFailed") = 1

\* a listRuns call failed after some attempts
C12Witness ==
    /\ ErrorIn({"listRuns"})
    /\ ~HasSuffix(error.message, "a disabled workflow")
    /\ attempts >= 2
    /\ pc = "done"

-----------------------------------------------------------------------------
(* The branch of the listRuns calls on its own: more refs *)

InitBranch ==
    InitWith({"ci.yml"},
             {"", "dev", "refs/heads/dev", "refs/tags/v1", "feature/refs/heads/x"},
             {""},
             {""},
             {0})

NextBranch ==
    \/ Start
    \/ ListWorkflowsReturn(Listings)
    \/ DispatchReturn
    \/ ListRunsReturn
    \/ CorrelatorWake

SpecBranch == InitBranch /\ [][NextBranch]_vars

-----------------------------------------------------------------------------
(* C13 *)

\* s starts with prefix
HasPrefix(s, prefix) == \E i \in 0..Len(s) : prefix \o SubSeq(s, i + 1, Len(s)) = s

\* C13 as stated: the branch of every listRuns call is the resolved ref
\* without its leading "refs/heads/" when the ref starts with "refs/heads/",
\* and the resolved ref unchanged otherwise.
C13BranchStrip ==
    \A i \in 1..Len(log) :
        log[i].op = "listRuns"
        => log[i].branch = (IF HasPrefix(ref, "refs/heads/")
                            THEN SubSeq(ref, Len("refs/heads/") + 1, Len(ref))
                            ELSE ref)

-----------------------------------------------------------------------------
(* C14 *)

IsSleep(e, ms) == e.op = "sleep" /\ e.ms = ms

\* C14: at most 30 listRuns calls are issued; attempts counts the 2 second
\* sleeps that are over; every 2 second sleep comes right after a listRuns
\* call and is followed by the next listRuns call or, after the 30th, by the
\* timeout failure, which so comes after exactly 30 listRuns calls and 30
\* sleeps; a run accepted on attempt k = attempts + 1 (1..30) leaves k
\* listRuns calls and k - 1 sleeps for the rest of the execution.
C14Attempts ==
    /\ Count(log, "listRuns") <= 30
    /\ attempts \in 0..30
    /\ attempts = IneligibleAttempts - (IF pc = "sleep2" THEN 1 ELSE 0)
    /\ \A i \in 1..Len(log) :
         IsSleep(log[i], 2000)
         => /\ i > 1 /\ log[i - 1].op = "listRuns"
            /\ i < Len(log)
               => \/ log[i + 1].op = "listRuns"
                  \/ /\ log[i + 1] = SetFailed("Timed out waiting for workflow run to start")
                     /\ IneligibleAttempts = 30
    /\ \A i \in 1..Len(log) :
         (log[i].op = "listRuns" /\ i < Len(log))
         => \/ IsSleep(log[i + 1], 2000)
            \/ log[i + 1].op \in {"warning", "setFailed"} /\ ErrorIn({"listRuns"})
            \/ log[i + 1].op \in {"getRun", "setOutput"} /\ acceptedRun # Null
    /\ ErrorIn({"correlate"})
       => /\ Count(log, "listRuns") = 30
          /\ IneligibleAttempts = 30
          /\ attempts = 30
    /\ acceptedRun # Null
       => /\ attempts \in 0..29
          /\ Count(log, "listRuns") = attempts + 1
          /\ IneligibleAttempts = attempts

\* a run accepted on the 30th attempt, and the polling that follows
C14Witness ==
    /\ acceptedRun # Null
    /\ attempts = 29
    /\ Count(log, "listRuns") = 30
    /\ Count(log, "getRun") >= 1

-----------------------------------------------------------------------------
(* C15 *)

PhaseRank(op) ==
    CASE op = "listWorkflows" -> 1
      [] op = "dispatch" -> 2
      [] op = "listRuns" -> 3
      [] op = "getRun" -> 4

\* C15: the API calls made so far are, in order, one listWorkflows, at most
\* one dispatch, then listRuns calls, then getRun calls: no listRuns call
\* follows a getRun call, and a listRuns or getRun call is made only after
\* the dispatch has succeeded and workflowId was set.
C15PhaseOrder ==
    LET calls == ApiCalls
    IN  /\ Count(log, "listWorkflows") <= 1
        /\ Count(log, "dispatch") <= 1
        /\ \A i \in 1..(Len(calls) - 1) :
             PhaseRank(calls[i].op) <= PhaseRank(calls[i + 1].op)
        /\ calls # << >> => calls[1].op = "listWorkflows"
        /\ Len(calls) >= 2 => calls[2].op = "dispatch"
        /\ Len(calls) >= 3
           => /\ DispatchSucceeded
              /\ log[3] = [op |-> "setOutput", name |-> "workflowId",
                           value |-> foundWorkflow.id]
              /\ \A i \in 1..3 : log[i].op \notin {"listRuns", "getRun"}

\* several listings followed by several fetches
C15Witness ==
    /\ Count(log, "listRuns") >= 2
    /\ Count(log, "getRun") >= 2
    /\ pc = "done"

-----------------------------------------------------------------------------
(* C16 *)

GetRunCalls == Select(log, "getRun")

\* every getRun call so far carries the id of the accepted run, the held
\* snapshot has that id, and so has the output workflow_run_id if it is set
SameRunThroughout ==
    /\ \A i \in 1..Len(GetRunCalls) : GetRunCalls[i].run_id = acceptedRun.id
    /\ acceptedRun # Null => workflowRun.id = acceptedRun.id
    /\ \A i \in 1..Len(Outputs) :
         Outputs[i].name = "workflow_run_id" => Outputs[i].value = acceptedRun.id

\* C16: as long as every getRun response has the id that was requested,
\* every getRun call carries the id of the run the Correlator accepted and
\* the output workflow_run_id is that id: a step that starts where this holds
\* and that is not a getRun response with another id ends where it holds.
C16SameRunId ==
    SameRunThroughout /\
    [][(SameRunThroughout
          /\ (pc = "awaitGetRun" => workflowRun'.id = LastLog.run_id))
       => SameRunThroughout']_vars

\* the snapshot was replaced twice and the outputs carry the accepted id
C16Witness ==
    /\ Len(GetRunCalls) >= 2
    /\ RunOutputSet
    /\ SameRunThroughout
    /\ pc = "done"

-----------------------------------------------------------------------------
(* C17 *)

\* the 5 second sleeps so far: the getRun responses that were not "completed"
PollerSleeps == Len(SelectSeq(log, LAMBDA e : IsSleep(e, 5000)))

\* C17: after n getRun responses that were not "completed" (n 5 second
\* sleeps) and no error, the invocation is still polling, in its n-th sleep
\* or waiting for fetch n + 1, with no run output and no failure; every
\* 5 second sleep comes right after a getRun call and is followed by the next
\* getRun call and by nothing else; the run outputs follow the last call
\* with no sleep between.
C17NoCap ==
    /\ PollerSleeps <= Count(log, "getRun")
    /\ Count(log, "getRun") <= PollerSleeps + 1
    /\ pc = "sleep5"
       => /\ Count(log, "getRun") = PollerSleeps
          /\ IsSleep(LastLog, 5000)
          /\ workflowRun.status # "completed"
          /\ ~RunOutputSet /\ ~Failed /\ ~Warned /\ error = Null
    /\ pc = "awaitGetRun"
       => /\ Count(log, "getRun") = PollerSleeps + 1
          /\ LastLog.op = "getRun"
          /\ workflowRun.status # "completed"
          /\ ~RunOutputSet /\ ~Failed /\ ~Warned /\ error = Null
    /\ \A i \in 1..Len(log) :
         IsSleep(log[i], 5000)
         => /\ i > 1 /\ log[i - 1].op = "getRun"
            /\ i < Len(log) => log[i + 1].op = "getRun"
    /\ RunOutputSet => log[Len(log) - 3].op \in {"listRuns", "getRun"}

\* still polling after two responses that were not "completed"
C17Witness ==
    /\ pc = "sleep5"
    /\ PollerSleeps = 2
    /\ Count(log, "getRun") = 2

-----------------------------------------------------------------------------
(* Termination: every call returns, every sleep ends, and the run is        *)
(* "completed" at the latest when it is fetched for the MaxPolls-th time    *)

InitLive ==
    InitWith({"ci.yml"},
             {""},
             {""},
             {"", "{bad json"},
             {0, ApiLatency})

\* GetRunReturn, where the last fetch the bound allows finds the run
\* completed (or fails)
GetRunReturnInTime ==
    /\ GetRunReturn
    /\ Count(log, "getRun") >= MaxPolls
       => (error' # Null \/ workflowRun'.status = "completed")

NextLive ==
    \/ Start
    \/ ListWorkflowsReturn(Listings)
    \/ DispatchReturn
    \/ ListRunsReturn
    \/ CorrelatorWake
    \/ GetRunReturnInTime
    \/ PollerWake

SpecLive == InitLive /\ [][NextLive]_vars /\ WF_vars(NextLive)

-----------------------------------------------------------------------------
(* C18 *)

InCorrelator == pc \in {"awaitListRuns", "sleep2"}

\* C18: when every call returns, every sleep ends and the run is eventually
\* "completed", the invocation eventually ends; and whatever the listings
\* answer, the Correlator is eventually left.
C18Terminates ==
    /\ <>(pc = "done")
    /\ InCorrelator ~> ~InCorrelator

\* ended with the run outputs after all the attempts but one and all the
\* fetches the bound allows
C18Witness ==
    /\ pc = "done"
    /\ RunOutputSet
    /\ attempts = 29
    /\ Count(log, "getRun") >= 2

-----------------------------------------------------------------------------
(* C19 *)

\* C19: in the executions where API calls take no time, at each of the (at
\* most 30) checks of the Correlator the clock is the dispatch time plus
\* 2 seconds per attempt made, and every run created at or after the
\* dispatch and not after the check is inside the recency window and passes
\* the test of the Correlator.
C19FreshRunAccepted ==
    (latency = 0 /\ pc = "awaitListRuns")
    => /\ Count(log, "listRuns") = attempts + 1
       /\ attempts + 1 \in 1..30
       /\ now = dispatchedAt + 2000 * attempts
       /\ \A c \in ((dispatchedAt + 999) \div 1000)..(now \div 1000) :
            /\ c * 1000 >= dispatchedAt
            /\ c * 1000 > now - 60000
            /\ Eligible(Run(7, "queued", NullConclusion, c), now)

\* the run created at the dispatch was accepted on the 30th attempt
C19Witness ==
    /\ latency = 0
    /\ acceptedRun # Null
    /\ attempts = 29
    /\ acceptedAt = dispatchedAt + 58000
    /\ acceptedRun.created_at = (dispatchedAt + 999) \div 1000

====
